---- MODULE Spec2Model ----
(***************************************************************************)
(* Model of src/src/main.rs: the line normalizer, the heuristic sentence   *)
(* segmenter (is_sentence_boundary, is_valid_sentence,                     *)
(* split_into_sentences) and the batching loop of main.                    *)
(*                                                                         *)
(* A Rust &str / String is a sequence of one-character strings.  All text  *)
(* is ASCII, so byte offsets and character positions coincide.  Positions  *)
(* named pos or i are 0-based as in the source; text[pos + 1] is the       *)
(* character at source position pos.                                       *)
(*                                                                         *)
(* Three specifications share the operators:                               *)
(*   PureSpec  applies normalize and is_sentence_boundary to short strings *)
(*   SegSpec   runs split_into_sentences one character at a time           *)
(*   Spec      runs main: read a line, segment it, batch and insert        *)
(***************************************************************************)
EXTENDS Integers, Sequences, FiniteSets, TLC

VARIABLES
    \* PureSpec
    raw, cleaned, cleaned2, bpos, bres, ppc,
    \* SegSpec: the locals of split_into_sentences
    text, i, current_sentence, sentences, cuts, spc,
    \* Spec: the locals of main, the sink, and the history of the run
    pc, batch_size, lines_read, pending, batch, sentence_count,
    persisted, index_created, printed, writer_flushes, writer_lines,
    input_read, emitted, appended, flush_log

pureVars == <<raw, cleaned, cleaned2, bpos, bres, ppc>>
segVars  == <<text, i, current_sentence, sentences, cuts, spc>>
mainVars == <<pc, batch_size, lines_read, pending, batch, sentence_count,
              persisted, index_created, printed, writer_flushes,
              writer_lines, input_read, emitted, appended, flush_log>>
vars == <<pureVars, segVars, mainVars>>

---------------------------------------------------------------------------
\* Bounds of the model.

\* longest string PureSpec draws, in characters
MaxLen == 5
\* most pieces a SegSpec line is put together from
MaxPieces == 5
\* most lines the input file of Spec holds
MaxLines == 3
\* largest batch_size Spec runs with
MaxBatchSize == 3

---------------------------------------------------------------------------
\* Character classes (char::is_alphabetic and friends, on ASCII).

LowerChars == {"a","b","c","d","e","f","g","h","i","j","k","l","m",
               "n","o","p","q","r","s","t","u","v","w","x","y","z"}
UpperChars == {"A","B","C","D","E","F","G","H","I","J","K","L","M",
               "N","O","P","Q","R","S","T","U","V","W","X","Y","Z"}
DigitChars == {"0","1","2","3","4","5","6","7","8","9"}
WhiteChars == {" ", "\t"}

is_alphabetic(c) == c \in LowerChars \cup UpperChars
is_numeric(c)    == c \in DigitChars
is_whitespace(c) == c \in WhiteChars
is_uppercase(c)  == c \in UpperChars

\* The complement of the regex class [^a-zA-Z0-9\s.!?].
AllowedChars == LowerChars \cup UpperChars \cup DigitChars \cup WhiteChars
                \cup {".", "!", "?"}

---------------------------------------------------------------------------
\* str helpers of the standard library, as the code uses them.

\* 1-based index of the first non-whitespace character, Len(s) + 1 if none
FirstNonWs(s) ==
    IF \E k \in 1..Len(s) : ~is_whitespace(s[k])
    THEN CHOOSE k \in 1..Len(s) :
            /\ ~is_whitespace(s[k])
            /\ \A j \in 1..(k - 1) : is_whitespace(s[j])
    ELSE Len(s) + 1

\* 1-based index of the last non-whitespace character, 0 if none
LastNonWs(s) ==
    IF \E k \in 1..Len(s) : ~is_whitespace(s[k])
    THEN CHOOSE k \in 1..Len(s) :
            /\ ~is_whitespace(s[k])
            /\ \A j \in (k + 1)..Len(s) : is_whitespace(s[j])
    ELSE 0

trim_start(s) == SubSeq(s, FirstNonWs(s), Len(s))
trim_end(s)   == SubSeq(s, 1, LastNonWs(s))
trim(s)       == trim_end(trim_start(s))

\* s.split_whitespace().count(): the maximal runs of non-whitespace
split_whitespace_count(s) ==
    Cardinality({k \in 1..Len(s) :
        ~is_whitespace(s[k]) /\ (k = 1 \/ is_whitespace(s[k - 1]))})

AllDigits(s) == \A k \in 1..Len(s) : is_numeric(s[k])

\* s spells the word w, letter case ignored; w is a sequence of letter pairs
SpellsWord(s, w) == Len(s) = Len(w) /\ \A k \in 1..Len(s) : s[k] \in w[k]

WordInf == <<{"i","I"}, {"n","N"}, {"f","F"}>>
WordInfinity == WordInf \o <<{"i","I"}, {"n","N"}, {"i","I"}, {"t","T"}, {"y","Y"}>>
WordNan == <<{"n","N"}, {"a","A"}, {"n","N"}>>

\* Digit+ | Digit+ '.' Digit* | Digit* '.' Digit+
IsMantissa(m) ==
    \/ Len(m) >= 1 /\ AllDigits(m)
    \/ /\ Len(m) >= 2
       /\ \E d \in 1..Len(m) :
            /\ m[d] = "."
            /\ AllDigits(SubSeq(m, 1, d - 1))
            /\ AllDigits(SubSeq(m, d + 1, Len(m)))

\* 'e' Sign? Digit+
IsExponent(e) ==
    /\ Len(e) >= 2
    /\ e[1] \in {"e", "E"}
    /\ LET r == IF e[2] \in {"+", "-"} THEN SubSeq(e, 3, Len(e)) ELSE Tail(e)
       IN  Len(r) >= 1 /\ AllDigits(r)

\* s.parse::<f64>().is_ok(): Sign? ( inf | infinity | nan | Mantissa Exp? ),
\* no whitespace accepted anywhere.
ParsesAsF64(s) ==
    LET u == IF Len(s) >= 1 /\ s[1] \in {"+", "-"} THEN Tail(s) ELSE s
    IN  \/ SpellsWord(u, WordInf)
        \/ SpellsWord(u, WordInfinity)
        \/ SpellsWord(u, WordNan)
        \/ IsMantissa(u)
        \/ \E k \in 2..Len(u) :
              IsMantissa(SubSeq(u, 1, k - 1)) /\ IsExponent(SubSeq(u, k, Len(u)))

---------------------------------------------------------------------------
\* Normalizer: re.replace_all(&line, "").trim()

\* the bug of trimming before the unwanted characters are removed
normalize_TrimFirst(line) == SelectSeq(trim(line), LAMBDA c : c \in AllowedChars)

normalize(line) == trim(SelectSeq(line, LAMBDA c : c \in AllowedChars))

---------------------------------------------------------------------------
\* Segmenter.

\* the bug of accepting only an uppercase letter after the whitespace
is_sentence_boundary_UpperOnly(txt, pos) ==
    IF pos = 0 \/ pos >= Len(txt) - 1 THEN FALSE
    ELSE LET prev_char == txt[pos]
             next_char == txt[pos + 2]
         IN  IF is_alphabetic(prev_char) /\ is_alphabetic(next_char) THEN FALSE
             ELSE IF is_numeric(prev_char) /\ is_numeric(next_char) THEN FALSE
             ELSE IF next_char = "." THEN FALSE
             ELSE /\ is_whitespace(next_char)
                  /\ LET rest == trim_start(SubSeq(txt, pos + 2, Len(txt)))
                     IN  Len(rest) > 0 /\ is_uppercase(rest[1])

is_sentence_boundary(txt, pos) ==
    IF pos = 0 \/ pos >= Len(txt) - 1 THEN FALSE
    ELSE LET prev_char == txt[pos]
             next_char == txt[pos + 2]
         IN  IF is_alphabetic(prev_char) /\ is_alphabetic(next_char) THEN FALSE
             ELSE IF is_numeric(prev_char) /\ is_numeric(next_char) THEN FALSE
             ELSE IF next_char = "." THEN FALSE
             ELSE /\ is_whitespace(next_char)
                  /\ LET rest == trim_start(SubSeq(txt, pos + 2, Len(txt)))
                     IN  /\ Len(rest) > 0
                         /\ (is_uppercase(rest[1]) \/ is_numeric(rest[1]))

\* the bug of leaving out the length test
is_valid_sentence_NoLength(sentence) ==
    LET trimmed == trim(sentence)
    IN  IF trimmed = <<>> THEN FALSE
        ELSE /\ split_whitespace_count(trimmed) >= 3
             /\ ~ParsesAsF64(trimmed)

is_valid_sentence(sentence) ==
    LET trimmed == trim(sentence)
    IN  IF trimmed = <<>> THEN FALSE
        ELSE /\ split_whitespace_count(trimmed) >= 3
             /\ ~ParsesAsF64(trimmed)
             /\ Len(trimmed) >= 10

\* the bug of map_or(false, ..): no cut at a '?' or '!' that ends the text
PeekAllowsCut_NotAtEnd(txt, p) ==
    IF p + 1 >= Len(txt) THEN FALSE
    ELSE is_whitespace(txt[p + 2]) \/ is_uppercase(txt[p + 2])

\* chars.peek() after the character at 0-based position p was taken:
\* the `?`/`!` test of the loop
PeekAllowsCut(txt, p) ==
    IF p + 1 >= Len(txt) THEN TRUE
    ELSE is_whitespace(txt[p + 2]) \/ is_uppercase(txt[p + 2])

\* the bug of cutting at every '.', whatever stands around it
BoundaryDetected_EveryDot(txt, p) ==
    LET c == txt[p + 1]
    IN  IF c = "." THEN TRUE
        ELSE IF c = "?" \/ c = "!" THEN PeekAllowsCut(txt, p)
        ELSE FALSE

\* the condition under which the loop body reaches an is_valid_sentence test
\* for the character at 0-based position p
BoundaryDetected(txt, p) ==
    LET c == txt[p + 1]
    IN  IF c = "." /\ is_sentence_boundary(txt, p) THEN TRUE
        ELSE IF c = "?" \/ c = "!" THEN PeekAllowsCut(txt, p)
        ELSE FALSE

\* the bug of leaving out current_sentence.clear()
ScanStep_NoClear(txt, st) ==
    LET c    == txt[st.i + 1]
        cur  == Append(st.current_sentence, c)
        emit == BoundaryDetected(txt, st.i) /\ is_valid_sentence(cur)
    IN  [i |-> st.i + 1,
         current_sentence |-> cur,
         sentences |-> IF emit THEN Append(st.sentences, trim(cur))
                       ELSE st.sentences]

\* the bug of clearing the buffer at every boundary, valid candidate or not
ScanStep_ClearOnInvalid(txt, st) ==
    LET c    == txt[st.i + 1]
        cur  == Append(st.current_sentence, c)
        emit == BoundaryDetected(txt, st.i) /\ is_valid_sentence(cur)
    IN  [i |-> st.i + 1,
         current_sentence |-> IF BoundaryDetected(txt, st.i) THEN <<>> ELSE cur,
         sentences |-> IF emit THEN Append(st.sentences, trim(cur))
                       ELSE st.sentences]

\* One iteration of `while let Some((i, c)) = chars.next()`.  st holds the
\* position of the next character, current_sentence and sentences.
ScanStep(txt, st) ==
    LET c    == txt[st.i + 1]
        cur  == Append(st.current_sentence, c)
        emit == BoundaryDetected(txt, st.i) /\ is_valid_sentence(cur)
    IN  [i |-> st.i + 1,
         current_sentence |-> IF emit THEN <<>> ELSE cur,
         sentences |-> IF emit THEN Append(st.sentences, trim(cur))
                       ELSE st.sentences]

\* the bug of leaving out is_valid_sentence in the test of the leftover
FinishScan_NoValidation(st) ==
    LET cur == st.current_sentence
        ss  == st.sentences
    IN  IF cur # <<>> THEN Append(ss, trim(cur))
        ELSE IF ss # <<>>
             THEN [ss EXCEPT ![Len(ss)] = (@ \o <<" ">>) \o trim(cur)]
             ELSE ss

\* the bug of pushing an invalid leftover as a sentence of its own
FinishScan_PushLeftover(st) ==
    LET cur == st.current_sentence
        ss  == st.sentences
    IN  IF cur # <<>> /\ is_valid_sentence(cur) THEN Append(ss, trim(cur))
        ELSE IF ss # <<>> THEN Append(ss, trim(cur))
        ELSE ss

\* the bug of dropping an invalid leftover instead of merging it
FinishScan_DropLeftover(st) ==
    LET cur == st.current_sentence
        ss  == st.sentences
    IN  IF cur # <<>> /\ is_valid_sentence(cur) THEN Append(ss, trim(cur))
        ELSE ss

\* "Handle the last sentence": the code after the loop
FinishScan(st) ==
    LET cur == st.current_sentence
        ss  == st.sentences
    IN  IF cur # <<>> /\ is_valid_sentence(cur) THEN Append(ss, trim(cur))
        ELSE IF ss # <<>>
             THEN [ss EXCEPT ![Len(ss)] = (@ \o <<" ">>) \o trim(cur)]
             ELSE ss

ScanStart == [i |-> 0, current_sentence |-> <<>>, sentences |-> <<>>]

RECURSIVE ScanAll(_, _)
ScanAll(txt, st) ==
    IF st.i >= Len(txt) THEN st ELSE ScanAll(txt, ScanStep(txt, st))

split_into_sentences(txt) == FinishScan(ScanAll(txt, ScanStart))

---------------------------------------------------------------------------
\* Values of the variables a specification does not use.

PureIdle ==
    /\ raw = <<>> /\ cleaned = <<>> /\ cleaned2 = <<>>
    /\ bpos = 0 /\ bres = FALSE /\ ppc = "idle"

SegIdle ==
    /\ text = <<>> /\ i = 0 /\ current_sentence = <<>>
    /\ sentences = <<>> /\ cuts = <<>> /\ spc = "idle"

MainIdle ==
    /\ pc = "idle" /\ batch_size = 1 /\ lines_read = 0 /\ pending = <<>>
    /\ batch = <<>> /\ sentence_count = 0 /\ persisted = <<>>
    /\ index_created = 0 /\ printed = <<>> /\ writer_flushes = 0
    /\ writer_lines = <<>> /\ input_read = <<>>
    /\ emitted = <<>> /\ appended = <<>> /\ flush_log = <<>>

---------------------------------------------------------------------------
\* PureSpec: normalize and is_sentence_boundary applied to every string of
\* at most MaxLen characters over PureChars.

PureChars == {"a", "A", "1", " ", ".", "?", "@"}

PureStrings == UNION {[1..n -> PureChars] : n \in 0..MaxLen}

PureInit ==
    /\ raw \in PureStrings
    /\ cleaned = <<>> /\ cleaned2 = <<>>
    /\ bpos = 0 /\ bres = FALSE /\ ppc = "input"
    /\ SegIdle /\ MainIdle

\* let cleaned_line = re.replace_all(&line, "").trim().to_string();
Normalize ==
    /\ ppc = "input"
    /\ cleaned' = normalize(raw)
    /\ ppc' = "normalized"
    /\ UNCHANGED <<raw, cleaned2, bpos, bres, segVars, mainVars>>

\* the normalizer applied to its own output
NormalizeAgain ==
    /\ ppc = "normalized"
    /\ cleaned2' = normalize(cleaned)
    /\ ppc' = "renormalized"
    /\ UNCHANGED <<raw, cleaned, bpos, bres, segVars, mainVars>>

\* is_sentence_boundary(raw, p) at a position p that holds '.'
CheckBoundary ==
    /\ ppc = "input"
    /\ \E p \in 0..(Len(raw) - 1) :
          /\ raw[p + 1] = "."
          /\ bpos' = p
          /\ bres' = is_sentence_boundary(raw, p)
    /\ ppc' = "boundary"
    /\ UNCHANGED <<raw, cleaned, cleaned2, segVars, mainVars>>

PureNext == Normalize \/ NormalizeAgain \/ CheckBoundary

PureSpec == PureInit /\ [][PureNext]_vars

---------------------------------------------------------------------------
\* SegSpec: split_into_sentences on every normalized line that is put
\* together from at most MaxPieces pieces.

\* a three-word piece one character short of a valid sentence
PieceWords == <<"A"," ","c","a","t"," ","s","a","t">>

Pieces == {PieceWords, <<".">>, <<"?">>, <<"!">>, <<" ">>, <<"1">>, <<"a">>}

RECURSIVE Flatten(_)
Flatten(ps) == IF ps = <<>> THEN <<>> ELSE Head(ps) \o Flatten(Tail(ps))

SegLines ==
    {normalize(Flatten(ps)) : ps \in UNION {[1..n -> Pieces] : n \in 0..MaxPieces}}

SegState == [i |-> i, current_sentence |-> current_sentence,
             sentences |-> sentences]

SegInit ==
    /\ text \in SegLines
    /\ i = 0 /\ current_sentence = <<>> /\ sentences = <<>>
    /\ cuts = <<>> /\ spc = "scan"
    /\ PureIdle /\ MainIdle

\* one iteration of the loop; cuts records the position of every emission
SegScan ==
    /\ spc = "scan"
    /\ i < Len(text)
    /\ LET st == ScanStep(text, SegState)
       IN  /\ i' = st.i
           /\ current_sentence' = st.current_sentence
           /\ sentences' = st.sentences
           /\ cuts' = IF Len(st.sentences) > Len(sentences)
                      THEN Append(cuts, i) ELSE cuts
    /\ UNCHANGED <<text, spc, pureVars, mainVars>>

\* the code after the loop, and the return
SegFinish ==
    /\ spc = "scan"
    /\ i >= Len(text)
    /\ sentences' = FinishScan(SegState)
    /\ spc' = "done"
    /\ UNCHANGED <<text, i, current_sentence, cuts, pureVars, mainVars>>

SegNext == SegScan \/ SegFinish

SegSpec == SegInit /\ [][SegNext]_vars

---------------------------------------------------------------------------
\* Spec: main.  The input file is read line by line; every line is one of
\* InputLines, and input_read holds the lines read so far.  writer_lines
\* holds the lines handed to SentenceWriter::write_sentence; the only call
\* of it is commented out (`// sentence_writer.write_sentence(&sentence)?;`),
\* so no action adds to it.  The statement `sentence + _writer.flush()?;`
\* is read as sentence_writer.flush()?.  pc is the position of main:
\*   "create_index"  before collection.create_index(..).await
\*   "read_line"     at the head of `for (line_number, line_result) in ..`
\*   "sentence"      at the head of `for sentence in sentences`
\*   "insert_many"   at collection.insert_many(..).await inside the loop
\*   "final"         after the loops, before `if !batch.is_empty()`
\*   "done"          main returned Ok(())
\*   "aborted"       main returned an Err through `?`

LineTwoSentences ==
    <<"T","h","e"," ","c","a","t"," ","s","a","t","."," ",
      "T","h","e"," ","d","o","g"," ","r","a","n",".">>
LineDecimal ==
    <<"P","i"," ","i","s"," ","a","b","o","u","t"," ","3",".","1","4","1",
      "5","9"," ","t","o","d","a","y",".">>
LineTooShort == <<"o","k",".">>
LineNoise == <<"@","@","@","#","#","#">>
LineQuestion == <<"I","s"," ","i","t"," ","@","a"," ","c","a","t","?">>

InputLines ==
    {LineTwoSentences, LineDecimal, LineTooShort, LineNoise, LineQuestion}

\* std::env::var("INPUT_FILE_PATH")
file_path == "input.txt"

\* the enumerate() index of the line being processed
line_number == lines_read - 1

\* the bug of storing the enumerate() index itself
Record_ZeroBased(sentence, n) ==
    [text |-> sentence, fileName |-> file_path, lineNumber |-> n]

\* doc! { "text": .., "fileName": .., "lineNumber": (line_number + 1) as i32 }
Record(sentence, n) ==
    [text |-> sentence, fileName |-> file_path, lineNumber |-> n + 1]

\* the records of the sentences ss, all of the line with index n
RECURSIVE RecordsOf(_, _)
RecordsOf(ss, n) ==
    IF ss = <<>> THEN <<>>
    ELSE <<Record(Head(ss), n)>> \o RecordsOf(Tail(ss), n)

\* the bug of flushing one record late
BatchFull_Late(b, size) == Len(b) > size

\* if batch.len() >= batch_size
BatchFull(b, size) == Len(b) >= size

\* the bug of leaving the sentence loop after the first sentence of a line
AfterSentence_OnlyFirst(rest) == "read_line"

\* where `for sentence in sentences` goes once the head of rest is consumed
AfterSentence(rest) == IF Tail(rest) = <<>> THEN "read_line" ELSE "sentence"

\* one call of insert_many, as the history keeps it
FlushEntry(kind, ok) ==
    [kind |-> kind, ok |-> ok, after |-> Len(appended),
     lines |-> lines_read, records |-> batch]

\* `let batch_size = 1000; // Adjust as needed`: the run is modelled for
\* every batch_size from 1 to MaxBatchSize.
Init ==
    /\ pc = "create_index"
    /\ batch_size \in 1..MaxBatchSize
    /\ lines_read = 0
    /\ pending = <<>>
    /\ batch = <<>>
    /\ sentence_count = 0
    /\ persisted = <<>>
    /\ index_created = 0
    /\ printed = <<>>
    /\ writer_flushes = 0
    /\ writer_lines = <<>>
    /\ input_read = <<>>
    /\ emitted = <<>>
    /\ appended = <<>>
    /\ flush_log = <<>>
    /\ PureIdle /\ SegIdle

\* collection.create_index(index_model, None).await? succeeds
CreateIndexOk ==
    /\ pc = "create_index"
    /\ index_created' = index_created + 1
    /\ pc' = "read_line"
    /\ UNCHANGED <<batch_size, lines_read, pending, batch, sentence_count,
                   persisted, printed, writer_flushes, emitted, appended,
                   flush_log, writer_lines,
                   input_read, pureVars, segVars>>

\* the bug of dropping the error of create_index and going on
CreateIndexFail_Ignored ==
    /\ pc = "create_index"
    /\ pc' = "read_line"
    /\ UNCHANGED <<batch_size, lines_read, pending, batch, sentence_count,
                   persisted, index_created, printed, writer_flushes, emitted,
                   appended, flush_log, writer_lines,
                   input_read, pureVars, segVars>>

\* collection.create_index(index_model, None).await? fails
CreateIndexFail ==
    /\ pc = "create_index"
    /\ pc' = "aborted"
    /\ UNCHANGED <<batch_size, lines_read, pending, batch, sentence_count,
                   persisted, index_created, printed, writer_flushes, emitted,
                   appended, flush_log, writer_lines,
                   input_read, pureVars, segVars>>

\* The next line is read, cleaned and split.
ReadLine ==
    /\ pc = "read_line"
    /\ lines_read < MaxLines
    /\ \E line \in InputLines :
          LET cleaned_line == normalize(line)
              found        == split_into_sentences(cleaned_line)
          IN  /\ input_read' = Append(input_read, line)
              /\ pending' = found
              /\ emitted' = emitted \o RecordsOf(found, lines_read)
              /\ pc' = IF found = <<>> THEN "read_line" ELSE "sentence"
    /\ lines_read' = lines_read + 1
    /\ UNCHANGED <<batch_size, batch, sentence_count, persisted,
                   index_created, printed, writer_flushes, appended,
                   flush_log, writer_lines,
                   pureVars, segVars>>

\* line_result is an Err: map_err(..)? returns from main
ReadLineError ==
    /\ pc = "read_line"
    /\ lines_read < MaxLines
    /\ pc' = "aborted"
    /\ UNCHANGED <<batch_size, lines_read, pending, batch, sentence_count,
                   persisted, index_created, printed, writer_flushes, emitted,
                   appended, flush_log, writer_lines,
                   input_read, pureVars, segVars>>

\* reader.lines() is exhausted
EndOfInput ==
    /\ pc = "read_line"
    /\ pc' = "final"
    /\ UNCHANGED <<batch_size, lines_read, pending, batch, sentence_count,
                   persisted, index_created, printed, writer_flushes, emitted,
                   appended, flush_log, writer_lines,
                   input_read, pureVars, segVars>>

\* The body of `for sentence in sentences` up to the test of the batch
\* length: push the record, then either go to insert_many or count the
\* sentence and go on.
AppendSentence ==
    /\ pc = "sentence"
    /\ pending # <<>>
    /\ LET sentence == Head(pending)
       IN  IF sentence # <<>>
           THEN LET pushed == Append(batch, Record(sentence, line_number))
                IN  /\ batch' = pushed
                    /\ appended' = Append(appended, Record(sentence, line_number))
                    /\ IF BatchFull(pushed, batch_size)
                       THEN /\ pc' = "insert_many"
                            /\ UNCHANGED <<pending, sentence_count>>
                       ELSE /\ sentence_count' = sentence_count + 1
                            /\ pending' = Tail(pending)
                            /\ pc' = AfterSentence(pending)
           ELSE /\ pending' = Tail(pending)
                /\ pc' = AfterSentence(pending)
                /\ UNCHANGED <<batch, appended, sentence_count>>
    /\ UNCHANGED <<batch_size, lines_read, persisted, index_created, printed,
                   writer_flushes, emitted, flush_log, writer_lines,
                   input_read, pureVars, segVars>>

\* the bug of leaving out batch.clear()
ThresholdInsertOk_NoClear ==
    /\ pc = "insert_many"
    /\ persisted' = Append(persisted, batch)
    /\ flush_log' = Append(flush_log, FlushEntry("threshold", TRUE))
    /\ printed' = Append(printed,
                     [msg |-> "Uploaded", n |-> sentence_count + batch_size])
    /\ writer_flushes' = writer_flushes + 1
    /\ sentence_count' = sentence_count + 1
    /\ pending' = Tail(pending)
    /\ pc' = AfterSentence(pending)
    /\ UNCHANGED <<batch, batch_size, lines_read, index_created, emitted,
                   appended, writer_lines,
                   input_read, pureVars, segVars>>

\* the bug of leaving the loop body after the flush, past sentence_count += 1
ThresholdInsertOk_NoCount ==
    /\ pc = "insert_many"
    /\ persisted' = Append(persisted, batch)
    /\ flush_log' = Append(flush_log, FlushEntry("threshold", TRUE))
    /\ batch' = <<>>
    /\ printed' = Append(printed,
                     [msg |-> "Uploaded", n |-> sentence_count + batch_size])
    /\ writer_flushes' = writer_flushes + 1
    /\ pending' = Tail(pending)
    /\ pc' = AfterSentence(pending)
    /\ UNCHANGED <<sentence_count, batch_size, lines_read, index_created,
                   emitted, appended, writer_lines, input_read, pureVars,
                   segVars>>

\* insert_many(batch.clone()) inside the loop succeeds: the batch is
\* cleared, the running count printed and the writer flushed; a failing
\* writer flush returns from main.
ThresholdInsertOk ==
    /\ pc = "insert_many"
    /\ persisted' = Append(persisted, batch)
    /\ flush_log' = Append(flush_log, FlushEntry("threshold", TRUE))
    /\ batch' = <<>>
    /\ printed' = Append(printed,
                     [msg |-> "Uploaded", n |-> sentence_count + batch_size])
    /\ \E writer_ok \in BOOLEAN :
          IF writer_ok
          THEN /\ writer_flushes' = writer_flushes + 1
               /\ sentence_count' = sentence_count + 1
               /\ pending' = Tail(pending)
               /\ pc' = AfterSentence(pending)
          ELSE /\ pc' = "aborted"
               /\ UNCHANGED <<writer_flushes, sentence_count, pending>>
    /\ UNCHANGED <<batch_size, lines_read, index_created, emitted, appended,
                   writer_lines,
                   input_read, pureVars, segVars>>

\* the bug of going on with the next sentence after a failed insert
ThresholdInsertFail_Swallow ==
    /\ pc = "insert_many"
    /\ flush_log' = Append(flush_log, FlushEntry("threshold", FALSE))
    /\ batch' = <<>>
    /\ sentence_count' = sentence_count + 1
    /\ pending' = Tail(pending)
    /\ pc' = AfterSentence(pending)
    /\ UNCHANGED <<batch_size, lines_read, persisted, index_created, printed,
                   writer_flushes, emitted, appended, writer_lines,
                   input_read, pureVars, segVars>>

\* insert_many(..).await? inside the loop fails: main returns the error
ThresholdInsertFail ==
    /\ pc = "insert_many"
    /\ flush_log' = Append(flush_log, FlushEntry("threshold", FALSE))
    /\ pc' = "aborted"
    /\ UNCHANGED <<batch_size, lines_read, pending, batch, sentence_count,
                   persisted, index_created, printed, writer_flushes, emitted,
                   appended, writer_lines,
                   input_read, pureVars, segVars>>

\* `if !batch.is_empty()` holds and the insert succeeds; then the final
\* writer flush and the total
FinalInsertOk ==
    /\ pc = "final"
    /\ batch # <<>>
    /\ persisted' = Append(persisted, batch)
    /\ flush_log' = Append(flush_log, FlushEntry("terminal", TRUE))
    /\ \E writer_ok \in BOOLEAN :
          IF writer_ok
          THEN /\ writer_flushes' = writer_flushes + 1
               /\ printed' = (printed
                     \o <<[msg |-> "Uploaded final", n |-> Len(batch)]>>)
                     \o <<[msg |-> "Total processed", n |-> sentence_count]>>
               /\ pc' = "done"
          ELSE /\ printed' = Append(printed,
                      [msg |-> "Uploaded final", n |-> Len(batch)])
               /\ pc' = "aborted"
               /\ UNCHANGED writer_flushes
    /\ UNCHANGED <<batch_size, lines_read, pending, batch, sentence_count,
                   index_created, emitted, appended, writer_lines,
                   input_read, pureVars, segVars>>

\* `if !batch.is_empty()` holds and the insert fails
FinalInsertFail ==
    /\ pc = "final"
    /\ batch # <<>>
    /\ flush_log' = Append(flush_log, FlushEntry("terminal", FALSE))
    /\ pc' = "aborted"
    /\ UNCHANGED <<batch_size, lines_read, pending, batch, sentence_count,
                   persisted, index_created, printed, writer_flushes, emitted,
                   appended, writer_lines,
                   input_read, pureVars, segVars>>

\* the batch is empty after the loops: only the final writer flush and the
\* total
FinalNoInsert ==
    /\ pc = "final"
    /\ batch = <<>>
    /\ \E writer_ok \in BOOLEAN :
          IF writer_ok
          THEN /\ writer_flushes' = writer_flushes + 1
               /\ printed' = Append(printed,
                      [msg |-> "Total processed", n |-> sentence_count])
               /\ pc' = "done"
          ELSE /\ pc' = "aborted"
               /\ UNCHANGED <<writer_flushes, printed>>
    /\ UNCHANGED <<batch_size, lines_read, pending, batch, sentence_count,
                   persisted, index_created, emitted, appended, flush_log,
                   writer_lines,
                   input_read, pureVars, segVars>>

Next ==
    \/ CreateIndexOk
    \/ CreateIndexFail
    \/ ReadLine
    \/ ReadLineError
    \/ EndOfInput
    \/ AppendSentence
    \/ ThresholdInsertOk
    \/ ThresholdInsertFail
    \/ FinalInsertOk
    \/ FinalInsertFail
    \/ FinalNoInsert

Spec == Init /\ [][Next]_vars

---------------------------------------------------------------------------
\* Properties of the segmenter, checked under SegSpec.

\* the end-of-input branch that appended the leftover to the last sentence
MergedAtEnd ==
    /\ spc = "done"
    /\ sentences # <<>>
    /\ ~(current_sentence # <<>> /\ is_valid_sentence(current_sentence))

\* C1: every sentence split_into_sentences holds or returns, a last sentence
\* with a merged trailing fragment included, has at least 3
\* whitespace-separated tokens and at least 10 characters and does not parse
\* as a number.
C1_EmittedSentencesValid ==
    \A k \in 1..Len(sentences) :
        /\ split_whitespace_count(sentences[k]) >= 3
        /\ Len(sentences[k]) >= 10
        /\ ~ParsesAsF64(sentences[k])

\* a sentence was emitted at a '.' and an invalid, non-blank leftover was
\* merged into it at end of input
C1_Witness ==
    /\ MergedAtEnd
    /\ trim(current_sentence) # <<>>
    /\ cuts # <<>>
    /\ text[cuts[Len(cuts)] + 1] = "."

\* C2: every sentence the segmenter holds or returns is non-empty and has
\* no leading or trailing whitespace.
C2_SentencesTrimmed ==
    \A k \in 1..Len(sentences) :
        sentences[k] # <<>> /\ trim(sentences[k]) = sentences[k]

\* a '.' at 0-based position p of txt that stands between two digits or
\* between two letters
DotInsideToken(txt, p) ==
    /\ p >= 1
    /\ p + 2 <= Len(txt)
    /\ txt[p + 1] = "."
    /\ \/ is_numeric(txt[p]) /\ is_numeric(txt[p + 2])
       \/ is_alphabetic(txt[p]) /\ is_alphabetic(txt[p + 2])

\* C9: no sentence is cut at a '.' that stands between two digits or
\* between two letters.
C9_NoCutInsideToken ==
    \A k \in 1..Len(cuts) : ~DotInsideToken(text, cuts[k])

\* a line with such a '.' was split completely and gave a sentence that
\* holds the '.' and what stands on both sides of it
C9_Witness ==
    /\ spc = "done"
    /\ \E p \in 0..(Len(text) - 1) :
          /\ DotInsideToken(text, p)
          /\ \E k \in 1..Len(sentences) :
                \E a \in 1..Len(sentences[k]) :
                    /\ a + 2 <= Len(sentences[k])
                    /\ SubSeq(sentences[k], a, a + 2) = SubSeq(text, p, p + 2)
    /\ cuts # <<>>

\* txt is S1, a run of whitespace, S2, where the '.' that ends S1 is at
\* 0-based position p and S2 starts at 0-based position q: both are valid
\* sentences, S2 starts with an uppercase letter, and position p is the only
\* position of the line at which the scan detects a boundary
TwoSentenceLine(txt, p, q) ==
    /\ 0 <= p /\ p + 1 < q /\ q < Len(txt)
    /\ txt[p + 1] = "."
    /\ \A r \in (p + 2)..q : is_whitespace(txt[r])
    /\ is_uppercase(txt[q + 1])
    /\ ~is_whitespace(txt[1])
    /\ ~is_whitespace(txt[Len(txt)])
    /\ is_valid_sentence(SubSeq(txt, 1, p + 1))
    /\ is_valid_sentence(SubSeq(txt, q + 1, Len(txt)))
    /\ \A r \in 0..(Len(txt) - 1) : r # p => ~BoundaryDetected(txt, r)

\* C10: a line made of two valid sentences S1 and S2 joined by whitespace,
\* S1 ending in '.', S2 starting with an uppercase letter and no other
\* boundary position in the line, is split into exactly <<S1, S2>>.
C10_TwoSentencesSplit ==
    spc = "done" =>
        \A p \in 0..(Len(text) - 1) : \A q \in 0..(Len(text) - 1) :
            TwoSentenceLine(text, p, q) =>
                sentences = <<SubSeq(text, 1, p + 1),
                              SubSeq(text, q + 1, Len(text))>>

\* such a line was split
C10_Witness ==
    /\ spc = "done"
    /\ \E p \in 0..(Len(text) - 1) : \E q \in 0..(Len(text) - 1) :
          TwoSentenceLine(text, p, q)

---------------------------------------------------------------------------
\* Properties of the normalizer and of is_sentence_boundary, checked under
\* PureSpec.

\* a can be had from b by deleting characters
RECURSIVE IsSubsequence(_, _)
IsSubsequence(a, b) ==
    IF a = <<>> THEN TRUE
    ELSE IF b = <<>> THEN FALSE
    ELSE IF Head(a) = Head(b) THEN IsSubsequence(Tail(a), Tail(b))
    ELSE IsSubsequence(a, Tail(b))

\* C7: normalizing a normalized line changes nothing, and the normalized
\* line is a subsequence of the input that holds only allowed characters.
C7_NormalizeIdempotentDeletionOnly ==
    /\ ppc = "renormalized" => cleaned2 = cleaned
    /\ ppc \in {"normalized", "renormalized"} =>
          /\ IsSubsequence(cleaned, raw)
          /\ \A k \in 1..Len(cleaned) : cleaned[k] \in AllowedChars

\* a line that lost an unwanted character and surrounding whitespace was
\* normalized twice
C7_Witness ==
    /\ ppc = "renormalized"
    /\ cleaned # <<>>
    /\ \E k \in 1..Len(raw) : raw[k] \notin AllowedChars
    /\ is_whitespace(raw[1])

\* Conditions (a) to (e) of the specification for the '.' at 0-based
\* position pos of txt.  The run of whitespace of (e) starts right after the
\* '.', holds at least one character, and ends before 0-based position q.
BoundaryRule(txt, pos) ==
    /\ pos # 0 /\ pos # Len(txt) - 1
    /\ ~(is_alphabetic(txt[pos]) /\ is_alphabetic(txt[pos + 2]))
    /\ ~(is_numeric(txt[pos]) /\ is_numeric(txt[pos + 2]))
    /\ txt[pos + 2] # "."
    /\ \E q \in (pos + 2)..(Len(txt) - 1) :
          /\ \A r \in (pos + 1)..(q - 1) : is_whitespace(txt[r + 1])
          /\ is_uppercase(txt[q + 1]) \/ is_numeric(txt[q + 1])

\* C8: at a position holding '.', is_sentence_boundary is true exactly when
\* conditions (a) to (e) hold.
C8_BoundaryIffRule ==
    ppc = "boundary" => (bres <=> BoundaryRule(raw, bpos))

\* is_sentence_boundary said yes to a '.' followed by whitespace and a digit
C8_Witness ==
    /\ ppc = "boundary"
    /\ bres
    /\ \E q \in (bpos + 2)..(Len(raw) - 1) : is_numeric(raw[q + 1])

---------------------------------------------------------------------------
\* Properties of the batching loop, checked under Spec.

RECURSIVE Flat(_)
Flat(batches) ==
    IF batches = <<>> THEN <<>> ELSE Head(batches) \o Flat(Tail(batches))

IsPrefix(a, b) == Len(a) <= Len(b) /\ SubSeq(b, 1, Len(a)) = a

\* no insert_many call of the run has failed
NoInsertFailure == \A k \in 1..Len(flush_log) : flush_log[k].ok

ThresholdFlushes == {k \in 1..Len(flush_log) : flush_log[k].kind = "threshold"}
TerminalFlushes  == {k \in 1..Len(flush_log) : flush_log[k].kind = "terminal"}

\* C3: with batch size B and n appended sentences, the k-th flush of the
\* loop is issued right after append k * B and carries B records; while no
\* insert has failed a flush was issued for every full B appends; and a run
\* that ends well has issued ceil(n / B) flushes, the last of them a
\* terminal flush with n mod B records exactly when n mod B is not zero.
C3_FlushSchedule ==
    LET B == batch_size
        n == Len(appended)
    IN  /\ \A k \in ThresholdFlushes :
              flush_log[k].after = k * B /\ Len(flush_log[k].records) = B
        /\ (NoInsertFailure /\ pc # "insert_many") =>
              Cardinality(ThresholdFlushes) = n \div B
        /\ pc = "done" =>
              /\ Len(flush_log) = (n + B - 1) \div B
              /\ IF n % B = 0 THEN TerminalFlushes = {}
                 ELSE /\ TerminalFlushes = {Len(flush_log)}
                      /\ Len(flush_log[Len(flush_log)].records) = n % B

\* batch size 2 and three sentences: a threshold flush, then a terminal one
C3_Witness ==
    /\ pc = "done"
    /\ batch_size = 2
    /\ Len(appended) = 3
    /\ Len(flush_log) = 2
    /\ Len(persisted[1]) = 2 /\ Len(persisted[2]) = 1

\* C4: the batches handed to the sink, one after the other, never hold
\* anything but the emitted sentence records in their order of arrival, each
\* once, and a run that ends well has handed over all of them.
C4_PersistedIsEmitted ==
    /\ IsPrefix(Flat(persisted), emitted)
    /\ pc = "done" => Flat(persisted) = emitted

\* a run over several lines ended well after more than one flush
C4_Witness ==
    /\ pc = "done"
    /\ Len(persisted) >= 2
    /\ \E a \in 1..Len(emitted) : \E b \in 1..Len(emitted) :
          emitted[a].lineNumber # emitted[b].lineNumber

\* C5: the batch never holds more than batch_size records, and holds fewer
\* whenever a sentence has been processed completely.
C5_BatchBounded ==
    /\ Len(batch) <= batch_size
    /\ pc \in {"read_line", "sentence", "final", "done"} =>
          Len(batch) < batch_size

\* a flush has emptied the batch and the loop goes on
C5_Witness ==
    /\ pc = "sentence"
    /\ batch = <<>>
    /\ persisted # <<>>
    /\ batch_size >= 2

\* the batches of the insert_many calls that succeeded, in order
RECURSIVE OkBatches(_)
OkBatches(log) ==
    IF log = <<>> THEN <<>>
    ELSE (IF Head(log).ok THEN <<Head(log).records>> ELSE <<>>)
         \o OkBatches(Tail(log))

\* C6: a failed insert_many is the last call of the run: the run is
\* aborted, no line was read and no record appended since, and the sink
\* holds exactly the batches of the calls that succeeded before it.
C6_FailedInsertAborts ==
    /\ persisted = OkBatches(flush_log)
    /\ \A k \in 1..Len(flush_log) :
          ~flush_log[k].ok =>
              /\ k = Len(flush_log)
              /\ pc = "aborted"
              /\ lines_read = flush_log[k].lines
              /\ Len(appended) = flush_log[k].after
              /\ batch = flush_log[k].records

\* an insert failed after an earlier one had succeeded
C6_Witness ==
    /\ pc = "aborted"
    /\ persisted # <<>>
    /\ flush_log # <<>>
    /\ ~flush_log[Len(flush_log)].ok

---------------------------------------------------------------------------
\* Properties of the messages, the file sink and the index, checked under
\* Spec.

\* the positions of the running "Uploaded N sentences" messages in printed
UploadedMessages == {j \in 1..Len(printed) : printed[j].msg = "Uploaded"}

\* C11: every running "Uploaded N sentences" message follows a successful
\* insert, and its N is the number of records persisted by the successful
\* flushes up to and including that insert.
C11_UploadedCountIsPersisted ==
    \A j \in UploadedMessages :
        /\ j <= Len(persisted)
        /\ \A k \in 1..j : flush_log[k].ok
        /\ printed[j].n = Len(Flat(SubSeq(persisted, 1, j)))

\* C12: the file sink has received one write_sentence call for every
\* sentence that was processed completely, one flush for every threshold
\* flush that succeeded, and one more flush when the run has ended well.
C12_WriterFollowsSentences ==
    /\ pc \in {"read_line", "sentence", "final", "done"} =>
          /\ Len(writer_lines) = Len(appended)
          /\ \A k \in 1..Len(writer_lines) : writer_lines[k] = appended[k].text
    /\ pc \in {"read_line", "sentence", "final"} =>
          writer_flushes = Cardinality(ThresholdFlushes)
    /\ pc = "done" => writer_flushes = Cardinality(ThresholdFlushes) + 1

\* C13: the index is created at most once; nothing is read or inserted
\* before it is created; a run whose index creation failed has read no line
\* and inserted nothing.
C13_IndexFirst ==
    /\ index_created \in {0, 1}
    /\ pc \notin {"create_index", "aborted"} => index_created = 1
    /\ index_created = 0 =>
          /\ lines_read = 0 /\ input_read = <<>>
          /\ flush_log = <<>> /\ persisted = <<>>
          /\ appended = <<>> /\ batch = <<>>

\* the index was created, lines were read and a batch was inserted
C13_Witness ==
    /\ index_created = 1
    /\ lines_read >= 2
    /\ persisted # <<>>

---------------------------------------------------------------------------
\* Properties of the steps of the segmenter, checked under SegSpec.

\* C14: at a '?' or '!' the scan sees a boundary exactly when no character
\* follows or the next character is whitespace or an uppercase letter; at
\* such a boundary the buffer is emitted and reset when it is valid, and in
\* every other case the scan keeps the buffer and emits nothing.
C14_QuestionMarkRule ==
    [][(spc = "scan" /\ i < Len(text) /\ text[i + 1] \in {"?", "!"}) =>
          LET cur == Append(current_sentence, text[i + 1])
              boundary == \/ i + 1 = Len(text)
                          \/ is_whitespace(text[i + 2])
                          \/ is_uppercase(text[i + 2])
          IN  IF boundary /\ is_valid_sentence(cur)
              THEN /\ sentences' = Append(sentences, trim(cur))
                   /\ current_sentence' = <<>>
              ELSE /\ sentences' = sentences
                   /\ current_sentence' = cur]_vars

\* the scan has just emitted a sentence at a '?' or '!' that is followed by
\* an uppercase letter
C14_Witness ==
    /\ spc = "scan"
    /\ cuts # <<>>
    /\ i = cuts[Len(cuts)] + 1
    /\ text[i] \in {"?", "!"}
    /\ i < Len(text)
    /\ is_uppercase(text[i + 1])

\* C15: a step that detects a boundary with an invalid candidate emits
\* nothing and keeps the candidate in the buffer; the buffer is cleared only
\* by a step that emits its whole content as a sentence.
C15_InvalidCandidateKept ==
    [][(spc = "scan" /\ i < Len(text)) =>
          LET cur == Append(current_sentence, text[i + 1])
          IN  /\ (BoundaryDetected(text, i) /\ ~is_valid_sentence(cur)) =>
                    (sentences' = sentences /\ current_sentence' = cur)
              /\ current_sentence' # cur =>
                    /\ current_sentence' = <<>>
                    /\ sentences' = Append(sentences, trim(cur))]_vars

\* a candidate that failed validation at its boundary is the prefix of the
\* first sentence of the result
C15_Witness ==
    /\ spc = "done"
    /\ cuts # <<>>
    /\ \E p \in 0..(cuts[1] - 1) :
          /\ BoundaryDetected(text, p)
          /\ ~is_valid_sentence(SubSeq(text, 1, p + 1))
          /\ IsPrefix(SubSeq(text, 1, p + 1), sentences[1])

\* C16: at end of input a valid buffer is emitted as the last sentence;
\* else, with a sentence emitted before, the trimmed leftover is appended
\* (after one space) to the last sentence and the number of sentences stays;
\* else the result is empty.
C16_EndOfInputOutcomes ==
    [][(spc = "scan" /\ spc' = "done") =>
          IF is_valid_sentence(current_sentence)
          THEN sentences' = Append(sentences, trim(current_sentence))
          ELSE IF sentences # <<>>
               THEN LET n == Len(sentences)
                    IN  /\ Len(sentences') = n
                        /\ \A k \in 1..(n - 1) : sentences'[k] = sentences[k]
                        /\ sentences'[n] =
                              (sentences[n] \o <<" ">>) \o trim(current_sentence)
               ELSE sentences' = <<>>]_vars

\* a sentence was emitted at a '?' or '!' and the invalid, non-blank
\* leftover was merged into it
C16_Witness ==
    /\ MergedAtEnd
    /\ trim(current_sentence) # <<>>
    /\ cuts # <<>>
    /\ text[cuts[Len(cuts)] + 1] \in {"?", "!"}
    /\ Len(sentences) = Len(cuts)

\* s without its whitespace
StripWhitespace(s) == SelectSeq(s, LAMBDA c : ~is_whitespace(c))

\* C19: when the result is not empty, the sentences joined in order and
\* stripped of whitespace are the line stripped of whitespace.
C19_NoTextLost ==
    (spc = "done" /\ sentences # <<>>) =>
        StripWhitespace(Flatten(sentences)) = StripWhitespace(text)

\* a line was split into two sentences, the second one taking a leftover
C19_Witness ==
    /\ spc = "done"
    /\ Len(sentences) >= 2
    /\ Len(cuts) = Len(sentences)
    /\ current_sentence # <<>>

---------------------------------------------------------------------------
\* Properties of the line loop and of the counters, checked under Spec.

\* C17: reading a line that yields no sentence, such as a line of unwanted
\* characters only or "ok.", adds no record and leaves the batch, the
\* sentence count and the sink as they were, with no insert_many call; the
\* loop goes straight on to the next line.
C17_EmptyLineChangesNothing ==
    [][(pc = "read_line" /\ Len(input_read') = Len(input_read) + 1) =>
          LET line == input_read'[Len(input_read')]
          IN  (line \in {LineNoise, LineTooShort} \/ emitted' = emitted) =>
                 /\ emitted' = emitted
                 /\ pending' = <<>>
                 /\ pc' = "read_line"
                 /\ UNCHANGED <<batch, sentence_count, persisted, flush_log,
                                appended, printed>>]_vars

\* a line without a sentence was just read while the batch and the sink
\* both hold records
C17_Witness ==
    /\ pc = "read_line"
    /\ input_read # <<>>
    /\ input_read[Len(input_read)] \in {LineNoise, LineTooShort}
    /\ batch # <<>>
    /\ persisted # <<>>

\* C18: every persisted record carries the 1-based number of a line that
\* was read and whose segmentation holds the record's text, and the line
\* numbers never decrease in dispatch order.
C18_LineNumbers ==
    LET rs == Flat(persisted)
    IN  /\ \A k \in 1..Len(rs) :
              /\ rs[k].lineNumber >= 1
              /\ rs[k].lineNumber <= Len(input_read)
              /\ LET ss == split_into_sentences(
                               normalize(input_read[rs[k].lineNumber]))
                 IN  \E j \in 1..Len(ss) : ss[j] = rs[k].text
        /\ \A k \in 1..(Len(rs) - 1) : rs[k].lineNumber <= rs[k + 1].lineNumber

\* records of line 1 and of line 3 are persisted, line 2 having given none
C18_Witness ==
    LET rs == Flat(persisted)
    IN  /\ Len(rs) >= 2
        /\ rs[1].lineNumber = 1
        /\ rs[Len(rs)].lineNumber = 3
        /\ \A k \in 1..Len(rs) : rs[k].lineNumber # 2

\* C20: at every head of the loops, sentence_count is the number of records
\* persisted plus the length of the batch; a run that ends well prints as
\* its total the number of records inserted over all flushes.
C20_CountMatchesRecords ==
    /\ pc \in {"read_line", "sentence", "final"} =>
          sentence_count = Len(Flat(persisted)) + Len(batch)
    /\ pc = "done" =>
          /\ printed # <<>>
          /\ printed[Len(printed)] =
                [msg |-> "Total processed", n |-> Len(Flat(persisted))]

\* a run with a threshold flush and a terminal flush ended well
C20_Witness ==
    /\ pc = "done"
    /\ Cardinality(ThresholdFlushes) >= 1
    /\ Cardinality(TerminalFlushes) = 1
    /\ sentence_count >= 3

====
